---- MODULE Spec2Model ----
(***************************************************************************)
(* Habit tracker (app.py): the ledger store (load_data, save_data), the    *)
(* habit extractor (extract_habits), the ledger updater (update_sheet),    *)
(* the period aggregator (analyze_period) and the Streamlit handlers that  *)
(* call them.  Text is modelled as TLA+ strings, a pandas DataFrame as a   *)
(* record of its column list and its rows, a cell as a tagged record.      *)
(***************************************************************************)
EXTENDS Integers, Sequences, FiniteSets, TLC

VARIABLES
    file,       \* habit_tracker.xlsx: [exists, cols, rows]
    pc,         \* per session: where the script run stands
    user_text,  \* per session: the text area's content
    today,      \* per session: the date argument handed to update_sheet
    data,       \* per session: the handler's DataFrame (data / new_data)
    habits,     \* per session: extract_habits' result
    period,     \* per session: the period handed to analyze_period
    call_time,  \* per session: what datetime.today() returned in analyze_period
    result,     \* per session: analyze_period's result
    stale,      \* history: another session saved since this one loaded
    last_saver  \* history: the session that saved last (0: none yet)

vars == <<file, pc, user_text, today, data, habits, period, call_time, result, stale, last_saver>>

Sessions == {1, 2}

Range(f) == {f[i] : i \in DOMAIN f}

(***************************************************************************)
(* Strings                                                                 *)
(***************************************************************************)
UpperLetters == "ABCDEFGHIJKLMNOPQRSTUVWXYZ"
LowerLetters == "abcdefghijklmnopqrstuvwxyz"
DigitChars == "0123456789"

CharAt(s, i) == SubSeq(s, i, i)

\* str.lower() on one character
LowerChar(c) ==
    IF \E i \in 1..Len(UpperLetters) : CharAt(UpperLetters, i) = c
    THEN CharAt(LowerLetters, CHOOSE i \in 1..Len(UpperLetters) : CharAt(UpperLetters, i) = c)
    ELSE c

RECURSIVE Lower(_)
\* str.lower()
Lower(s) ==
    IF Len(s) = 0 THEN ""
    ELSE LowerChar(CharAt(s, 1)) \o Lower(SubSeq(s, 2, Len(s)))

\* pattern in text (Python's substring test)
Contains(text, pattern) ==
    \E i \in 1..(Len(text) - Len(pattern) + 1) :
        SubSeq(text, i, i + Len(pattern) - 1) = pattern

\* user_text.strip() == ""
IsBlank(s) == \A i \in 1..Len(s) : CharAt(s, i) \in {" ", "\t", "\n"}

RECURSIVE Pad(_, _)
\* a number as `width` decimal digits, zero-padded (%Y: 4, %m and %d: 2)
Pad(n, width) ==
    IF width = 0 THEN ""
    ELSE Pad(n \div 10, width - 1) \o CharAt(DigitChars, (n % 10) + 1)

RECURSIVE ToInt(_)
\* the number a string of decimal digits denotes
ToInt(s) ==
    IF Len(s) = 0 THEN 0
    ELSE 10 * ToInt(SubSeq(s, 1, Len(s) - 1))
         + (CHOOSE d \in 0..9 : CharAt(DigitChars, d + 1) = CharAt(s, Len(s)))

(***************************************************************************)
(* Calendar (datetime): a date is [year, month, day], a datetime adds the  *)
(* time of day `tod` in seconds; a point in time is <<ordinal, tod>>.      *)
(***************************************************************************)
IsLeap(y) == (y % 4 = 0) /\ ((y % 100 # 0) \/ (y % 400 = 0))

DaysInMonth(y, m) ==
    IF m = 2 THEN (IF IsLeap(y) THEN 29 ELSE 28)
    ELSE IF m \in {4, 6, 9, 11} THEN 30 ELSE 31

DaysBeforeYear(y) ==
    (y - 1) * 365 + ((y - 1) \div 4) - ((y - 1) \div 100) + ((y - 1) \div 400)

RECURSIVE DaysBeforeMonth(_, _)
DaysBeforeMonth(y, m) ==
    IF m = 1 THEN 0 ELSE DaysBeforeMonth(y, m - 1) + DaysInMonth(y, m - 1)

\* date.toordinal()
ToOrdinal(y, m, d) == DaysBeforeYear(y) + DaysBeforeMonth(y, m) + d

\* date.weekday(): Monday is 0
Weekday(y, m, d) == (ToOrdinal(y, m, d) + 6) % 7

\* today.strftime("%Y-%m-%d")
Strftime(dt) == Pad(dt.year, 4) \o "-" \o Pad(dt.month, 2) \o "-" \o Pad(dt.day, 2)

\* the places of the "-" separators of a date string
Dashes(s) == {i \in 1..Len(s) : CharAt(s, i) = "-"}

\* pd.to_datetime on one year-month-day string: the point in time, at 00:00
ParseDate(s) ==
    LET i == CHOOSE k \in Dashes(s) : \A j \in Dashes(s) : k <= j
        j == CHOOSE k \in Dashes(s) : \A l \in Dashes(s) : l <= k
    IN  <<ToOrdinal(ToInt(SubSeq(s, 1, i - 1)),
                    ToInt(SubSeq(s, i + 1, j - 1)),
                    ToInt(SubSeq(s, j + 1, Len(s)))), 0>>

\* a <= b on points in time
TimeLe(a, b) == (a[1] < b[1]) \/ (a[1] = b[1] /\ a[2] <= b[2])

(***************************************************************************)
(* Cells and tables                                                        *)
(***************************************************************************)
Str(s) == [kind |-> "str", s |-> s, t |-> <<0, 0>>]
Timestamp(t) == [kind |-> "ts", s |-> "", t |-> t]
NA == [kind |-> "na", s |-> "", t |-> <<0, 0>>]     \* pd.NA
NaN == [kind |-> "nan", s |-> "", t |-> <<0, 0>>]   \* a blank cell as read_excel returns it
NaT == [kind |-> "nat", s |-> "", t |-> <<0, 0>>]   \* pd.to_datetime of a missing value

core_habits == <<"exercise", "study", "work", "cooking", "reading", "sleep", "maintenance">>
columns_to_keep == <<"Date">> \o core_habits

\* Series.astype(str) on one cell.  A Timestamp cell exists only in the table
\* analyze_period was handed, which no handler passes on to update_sheet.
AsTypeStr(c) ==
    CASE c.kind = "str" -> c.s
      [] c.kind = "na" -> "<NA>"
      [] c.kind = "nan" -> "nan"
      [] c.kind = "nat" -> "NaT"

\* df[name] = value: a new column at the end, or an existing column overwritten
SetColumn(df, name, value) ==
    [cols |-> IF name \in Range(df.cols) THEN df.cols ELSE Append(df.cols, name),
     rows |-> [i \in DOMAIN df.rows |->
                 [c \in Range(df.cols) \cup {name} |->
                     IF c = name THEN value ELSE df.rows[i][c]]]]

\* df.drop(columns=[name])
DropColumn(df, name) ==
    [cols |-> SelectSeq(df.cols, LAMBDA c : c # name),
     rows |-> [i \in DOMAIN df.rows |->
                 [c \in Range(df.cols) \ {name} |-> df.rows[i][c]]]]

\* df.to_excel / pd.read_excel on one cell: a missing value is a blank cell
ToExcel(c) == IF c.kind \in {"na", "nan", "nat"} THEN NaN ELSE c

NoFile == [exists |-> FALSE, cols |-> <<>>, rows |-> <<>>]

\* df.to_excel(FILE_NAME, index=False)
WriteExcel(df) ==
    [exists |-> TRUE,
     cols |-> df.cols,
     rows |-> [i \in DOMAIN df.rows |->
                 [c \in Range(df.cols) |-> ToExcel(df.rows[i][c])]]]

\* pd.read_excel(FILE_NAME)
ReadExcel(f) == [cols |-> f.cols, rows |-> f.rows]

\* pd.DataFrame(columns=["Date"] + core_habits)
EmptyFrame == [cols |-> columns_to_keep, rows |-> <<>>]

(***************************************************************************)
(* Ledger store                                                            *)
(***************************************************************************)
RECURSIVE AddMissingHabits(_, _, _)
\* for habit in core_habits: if habit not in current_columns: df[habit] = "No"
AddMissingHabits(df, current_columns, k) ==
    IF k > Len(core_habits) THEN df
    ELSE AddMissingHabits(
            IF core_habits[k] \in Range(current_columns) THEN df
            ELSE SetColumn(df, core_habits[k], Str("No")),
            current_columns, k + 1)

\* mutant of DropNonCore: the columns outside the habit set are kept
DropNonCoreNone(df, current_columns, k) == df

RECURSIVE DropNonCore(_, _, _)
\* for col in current_columns: if col not in columns_to_keep: df = df.drop(columns=[col])
DropNonCore(df, current_columns, k) ==
    IF k > Len(current_columns) THEN df
    ELSE DropNonCore(
            IF current_columns[k] \in Range(columns_to_keep) THEN df
            ELSE DropColumn(df, current_columns[k]),
            current_columns, k + 1)

\* load_data's return value, given the backing file
load_data(f) ==
    IF ~f.exists THEN EmptyFrame
    ELSE LET df0 == ReadExcel(f)
             df1 == IF "Date" \in Range(df0.cols) THEN df0
                    ELSE SetColumn(df0, "Date", NA)
             current_columns == df1.cols
             df2 == AddMissingHabits(df1, current_columns, 1)
         IN  DropNonCore(df2, current_columns, 1)

\* the backing file after load_data: created, with the header alone, when absent
FileAfterLoad(f) == IF ~f.exists THEN WriteExcel(EmptyFrame) ELSE f

\* save_data's table: Date inserted, or moved, to the first place
DateFirst(df) ==
    IF "Date" \in Range(df.cols)
    THEN [cols |-> <<"Date">> \o SelectSeq(df.cols, LAMBDA c : c # "Date"),
          rows |-> df.rows]
    ELSE [cols |-> <<"Date">> \o df.cols,
          rows |-> [i \in DOMAIN df.rows |->
                      [c \in Range(df.cols) \cup {"Date"} |->
                          IF c = "Date" THEN NA ELSE df.rows[i][c]]]]

\* mutant of save_data: the records of the file that df lacks are kept
save_data_merge(f, df) ==
    LET kept == SelectSeq(f.rows, LAMBDA r :
                    \A i \in DOMAIN df.rows : df.rows[i]["Date"] # r["Date"])
    IN  WriteExcel([cols |-> DateFirst(df).cols, rows |-> kept \o df.rows])

\* the backing file after save_data(df): the whole table, rewritten
save_data(f, df) == WriteExcel(DateFirst(df))

(***************************************************************************)
(* Habit extractor                                                         *)
(***************************************************************************)
habit_patterns ==
    [h \in Range(core_habits) |->
        CASE h = "exercise" -> {"exercise", "workout", "walked", "ran", "jogged", "gym"}
          [] h = "study" -> {"study", "studied", "learning", "read", "reading", "papers"}
          [] h = "work" -> {"work", "coding", "emails", "meeting", "presentation"}
          [] h = "cooking" -> {"cook", "cooked", "food", "lunch", "grocery", "shopping"}
          [] h = "reading" -> {"read", "reading", "novel", "studied", "papers"}
          [] h = "sleep" -> {"sleep", "slept", "woke", "hours"}
          [] h = "maintenance" -> {"clean", "laundry", "cleaned", "apartment"}]

\* mutant of extract_habits: the text is matched as written, not lowercased
extract_habits_cased(text) ==
    {habit \in DOMAIN habit_patterns :
        \E pattern \in habit_patterns[habit] : Contains(text, pattern)}

\* extract_habits(text): the detected habits (a list made of a set)
extract_habits(text) ==
    LET text_lower == Lower(text)
    IN  {habit \in DOMAIN habit_patterns :
            \E pattern \in habit_patterns[habit] : Contains(text_lower, pattern)}

(***************************************************************************)
(* Ledger updater                                                          *)
(***************************************************************************)
\* a date argument: a string, or a date value
StrArg(s) == [isstr |-> TRUE, s |-> s, date |-> [year |-> 0, month |-> 0, day |-> 0]]
DateArg(d) == [isstr |-> FALSE, s |-> "", date |-> d]

\* mutant of TodayStr: a date value formatted day first
TodayStrDayFirst(arg) ==
    IF arg.isstr THEN arg.s
    ELSE Pad(arg.date.day, 2) \o "-" \o Pad(arg.date.month, 2) \o "-" \o Pad(arg.date.year, 4)

\* today_str
TodayStr(arg) == IF arg.isstr THEN arg.s ELSE Strftime(arg.date)

\* the rows whose Date, as a string, is key
RowsOf(df, key) == {i \in DOMAIN df.rows : AsTypeStr(df.rows[i]["Date"]) = key}

\* pd.concat([df, pd.DataFrame([row])], ignore_index=True).  A column of row that
\* df lacks goes to the end; load_data's tables hold all eight, so none is new.
Concat(df, row) ==
    LET new == SelectSeq(columns_to_keep,
                         LAMBDA c : c \in DOMAIN row /\ c \notin Range(df.cols))
        cols == df.cols \o new
        Fill(r) == [c \in Range(cols) |-> IF c \in DOMAIN r THEN r[c] ELSE NaN]
    IN  [cols |-> cols,
         rows |-> Append([i \in DOMAIN df.rows |-> Fill(df.rows[i])], Fill(row))]

\* mutant of UpdatedRow: an existing record is overwritten, not merged
UpdatedRowOverwrite(df, habits_today, today_str) ==
    [c \in Range(columns_to_keep) |->
        IF c = "Date" THEN Str(today_str)
        ELSE IF c \in habits_today THEN Str("Yes") ELSE Str("No")]

\* the row update_sheet builds
UpdatedRow(df, habits_today, today_str) ==
    IF RowsOf(df, today_str) # {}
    THEN LET first == CHOOSE i \in RowsOf(df, today_str) :
                          \A j \in RowsOf(df, today_str) : i <= j
             existing_row == df.rows[first]
         IN  [c \in DOMAIN existing_row |->
                 IF c \in habits_today /\ c \in Range(core_habits)
                 THEN Str("Yes") ELSE existing_row[c]]
    ELSE [c \in Range(columns_to_keep) |->
             IF c = "Date" THEN Str(today_str)
             ELSE IF c \in habits_today THEN Str("Yes") ELSE Str("No")]

\* mutant of WithoutDate: the existing record is not removed
WithoutDateKeepAll(df, today_str) == df

\* mutant of WithoutDate: the comparison inverted, only the date's records kept
WithoutDateInverted(df, today_str) ==
    [cols |-> df.cols,
     rows |-> SelectSeq(df.rows, LAMBDA r : AsTypeStr(r["Date"]) = today_str)]

\* df[df["Date"].astype(str) != today_str]
WithoutDate(df, today_str) ==
    [cols |-> df.cols,
     rows |-> SelectSeq(df.rows, LAMBDA r : AsTypeStr(r["Date"]) # today_str)]

\* update_sheet(df, habits_today, today)
update_sheet(df, habits_today, arg) ==
    LET today_str == TodayStr(arg)
    IN  Concat(WithoutDate(df, today_str), UpdatedRow(df, habits_today, today_str))

(***************************************************************************)
(* Period aggregator                                                       *)
(***************************************************************************)
\* [start, end] of the period, computed from datetime.today()
PeriodStart(p, now) ==
    IF p = "week"
    THEN <<ToOrdinal(now.year, now.month, now.day)
             - Weekday(now.year, now.month, now.day), now.tod>>
    ELSE <<ToOrdinal(now.year, now.month, 1), now.tod>>

PeriodEnd(p, now) ==
    IF p = "week"
    THEN <<PeriodStart(p, now)[1] + 6, now.tod>>
    ELSE IF now.month = 12
         THEN <<ToOrdinal(now.year + 1, 1, 1) - 1, now.tod>>
         ELSE <<ToOrdinal(now.year, now.month + 1, 1) - 1, now.tod>>

\* pd.to_datetime on one cell
ToDatetime(c) ==
    CASE c.kind = "str" -> Timestamp(ParseDate(c.s))
      [] c.kind = "ts" -> c
      [] OTHER -> NaT

\* df["Date"] = pd.to_datetime(df["Date"]): the caller's table, changed in place
DatesConverted(df) ==
    [cols |-> df.cols,
     rows |-> [i \in DOMAIN df.rows |->
                 [c \in DOMAIN df.rows[i] |->
                     IF c = "Date" THEN ToDatetime(df.rows[i][c]) ELSE df.rows[i][c]]]]

\* mask = (df["Date"] >= start) & (df["Date"] <= end), on one row
InMask(row, start, end) ==
    /\ row["Date"].kind = "ts"
    /\ TimeLe(start, row["Date"].t)
    /\ TimeLe(row["Date"].t, end)

\* analyze_period(df, period) called at `now`: the counts and the total.  A cell
\* is counted when it is text that lowercases to "yes".
analyze_period(df, p, now) ==
    LET conv == DatesConverted(df)
        start == PeriodStart(p, now)
        end == PeriodEnd(p, now)
        df_period == SelectSeq(conv.rows, LAMBDA r : InMask(r, start, end))
    IN  [counts |-> [habit \in Range(core_habits) |->
                        Cardinality({i \in DOMAIN df_period :
                            /\ habit \in DOMAIN df_period[i]
                            /\ df_period[i][habit].kind = "str"
                            /\ Lower(df_period[i][habit].s) = "yes"})],
         total |-> Len(df_period)]

(***************************************************************************)
(* Inputs                                                                  *)
(***************************************************************************)
\* how many calendar days the date picker offers, from FirstDay on
MaxDays == 2
\* how many records a ledger handed to the aggregator holds at most
MaxRows == 2

FirstDay == [year |-> 2024, month |-> 3, day |-> 5]
Days == {[year |-> FirstDay.year, month |-> FirstDay.month, day |-> FirstDay.day + k] :
            k \in 0..(MaxDays - 1)}

\* a date written without zero padding, as a caller may hand it over as a string
Unpadded(d) == Pad(d.year, 4) \o "-" \o Pad(d.month, 1) \o "-" \o Pad(d.day, 1)

\* the date arguments update_sheet is called with: date values, their
\* "%Y-%m-%d" strings (what the UI hands over) and one unpadded string
DateArgs ==
    {DateArg(d) : d \in Days} \cup {StrArg(Strftime(d)) : d \in Days}
        \cup {StrArg(Unpadded(FirstDay))}

ExampleText == "I exercised and read papers"
Texts == {"", "  ", ExampleText, "Workout"}

Table(cols, rows) == [exists |-> TRUE, cols |-> cols, rows |-> rows]

\* backing files this program did not write: an extra column and missing
\* habits; no Date column; the columns out of order and a blank cell
LegacyFiles ==
    {Table(<<"Date", "exercise", "mood">>,
           <<[Date |-> Str("2024-03-05"), exercise |-> Str("Yes"), mood |-> Str("ok")]>>),
     Table(<<"exercise", "study">>,
           <<[exercise |-> Str("Yes"), study |-> Str("No")]>>),
     Table(<<"exercise", "Date", "study", "work", "cooking", "reading", "sleep",
             "maintenance">>,
           <<[Date |-> Str("2024-03-05"), exercise |-> Str("Yes"), study |-> NaN,
              work |-> Str("No"), cooking |-> Str("No"), reading |-> Str("No"),
              sleep |-> Str("No"), maintenance |-> Str("No")]>>)}

Date(y, m, d) == [year |-> y, month |-> m, day |-> d]

\* the days of the records under analysis, ascending: around the week of
\* 2024-03-06, the months of February, March and December 2024, and the new year
AnalysisDays ==
    <<Date(2024, 2, 1), Date(2024, 2, 26), Date(2024, 2, 29), Date(2024, 3, 1),
      Date(2024, 3, 3), Date(2024, 3, 4), Date(2024, 3, 10), Date(2024, 3, 11),
      Date(2024, 3, 31), Date(2024, 4, 1), Date(2024, 11, 30), Date(2024, 12, 1),
      Date(2024, 12, 30), Date(2024, 12, 31), Date(2025, 1, 1), Date(2025, 1, 5)>>

\* the call times of analyze_period: a Wednesday, a leap day and the year's
\* last day, each at midnight and at 14:30
CallDays == {Date(2024, 3, 6), Date(2024, 2, 29), Date(2024, 12, 31)}
TimesOfDay == {0, 14 * 3600 + 30 * 60}
CallTimes ==
    {[year |-> d.year, month |-> d.month, day |-> d.day, tod |-> t] :
        d \in CallDays, t \in TimesOfDay}

RECURSIVE Logged(_, _)
\* the ledger after one Log cycle for each day of the list, in order; the
\* texts alternate
Logged(days, k) ==
    IF k = 0 THEN EmptyFrame
    ELSE update_sheet(Logged(days, k - 1),
                      extract_habits(IF k % 2 = 1 THEN ExampleText ELSE "Workout"),
                      StrArg(Strftime(days[k])))

\* the increasing index lists of at most MaxRows of the analysis days
DayLists ==
    {l \in UNION {[1..n -> 1..Len(AnalysisDays)] : n \in 0..MaxRows} :
        \A i \in 1..(Len(l) - 1) : l[i] < l[i + 1]}

\* the files the aggregator reads: ledgers the Log cycle wrote
AnalysisFiles ==
    {save_data(NoFile, Logged([i \in DOMAIN l |-> AnalysisDays[l[i]]], Len(l))) :
        l \in DayLists}

(***************************************************************************)
(* The script run of one session                                           *)
(***************************************************************************)
NoData == [cols |-> <<>>, rows |-> <<>>]
NoArg == StrArg("")
NoTime == [year |-> 0, month |-> 0, day |-> 0, tod |-> 0]
NoResult == [counts |-> [habit \in Range(core_habits) |-> 0], total |-> 0]

InitLocals ==
    /\ pc = [s \in Sessions |-> "idle"]
    /\ user_text = [s \in Sessions |-> ""]
    /\ today = [s \in Sessions |-> NoArg]
    /\ data = [s \in Sessions |-> NoData]
    /\ habits = [s \in Sessions |-> {}]
    /\ period = [s \in Sessions |-> ""]
    /\ call_time = [s \in Sessions |-> NoTime]
    /\ result = [s \in Sessions |-> NoResult]
    /\ stale = [s \in Sessions |-> FALSE]
    /\ last_saver = 0

\* first use: no backing file yet
Init == file = NoFile /\ InitLocals

\* "Log Habits" pressed with a text that is not blank: data = load_data()
LogLoad(s, text, arg) ==
    /\ pc[s] = "idle"
    /\ ~IsBlank(text)
    /\ data' = [data EXCEPT ![s] = load_data(file)]
    /\ file' = FileAfterLoad(file)
    /\ user_text' = [user_text EXCEPT ![s] = text]
    /\ today' = [today EXCEPT ![s] = arg]
    /\ stale' = [stale EXCEPT ![s] = FALSE]
    /\ pc' = [pc EXCEPT ![s] = "log_loaded"]
    /\ UNCHANGED <<habits, period, call_time, result, last_saver>>

\* habits = extract_habits(user_text)
LogExtract(s) ==
    /\ pc[s] = "log_loaded"
    /\ habits' = [habits EXCEPT ![s] = extract_habits(user_text[s])]
    /\ pc' = [pc EXCEPT ![s] = "log_extracted"]
    /\ UNCHANGED <<file, user_text, today, data, period, call_time, result, stale, last_saver>>

\* new_data = update_sheet(data, habits, selected_date_str)
LogUpdate(s) ==
    /\ pc[s] = "log_extracted"
    /\ data' = [data EXCEPT ![s] = update_sheet(data[s], habits[s], today[s])]
    /\ pc' = [pc EXCEPT ![s] = "log_updated"]
    /\ UNCHANGED <<file, user_text, today, habits, period, call_time, result, stale, last_saver>>

\* save_data(new_data), which also moves new_data's Date column
LogSave(s) ==
    /\ pc[s] = "log_updated"
    /\ file' = save_data(file, data[s])
    /\ data' = [data EXCEPT ![s] = DateFirst(data[s])]
    /\ stale' = [t \in Sessions |->
                    IF t # s /\ pc[t] \in {"log_loaded", "log_extracted", "log_updated"}
                    THEN TRUE ELSE stale[t]]
    /\ last_saver' = s
    /\ pc' = [pc EXCEPT ![s] = "log_done"]
    /\ UNCHANGED <<user_text, today, habits, period, call_time, result>>

\* "Analyze My Week" / "Analyze My Month" pressed: data = load_data()
AnalyzeLoad(s, p) ==
    /\ pc[s] = "idle"
    /\ data' = [data EXCEPT ![s] = load_data(file)]
    /\ file' = FileAfterLoad(file)
    /\ period' = [period EXCEPT ![s] = p]
    /\ pc' = [pc EXCEPT ![s] = "an_loaded"]
    /\ UNCHANGED <<user_text, today, habits, call_time, result, stale, last_saver>>

\* weekly = analyze_period(data, period), called at time t
AnalyzePeriod(s, t) ==
    /\ pc[s] = "an_loaded"
    /\ call_time' = [call_time EXCEPT ![s] = t]
    /\ result' = [result EXCEPT ![s] = analyze_period(data[s], period[s], t)]
    /\ data' = [data EXCEPT ![s] = DatesConverted(data[s])]
    /\ pc' = [pc EXCEPT ![s] = "an_done"]
    /\ UNCHANGED <<file, user_text, today, habits, period, stale, last_saver>>

\* the download section of a run in which no button was pressed: the file,
\* when absent, is created with the header "Date" alone
Download(s) ==
    /\ pc[s] = "idle"
    /\ ~file.exists
    /\ file' = Table(<<"Date">>, <<>>)
    /\ UNCHANGED <<pc, user_text, today, data, habits, period, call_time, result, stale, last_saver>>

\* the script run ends: the handler's variables are gone
Finish(s) ==
    /\ pc[s] \in {"log_done", "an_done"}
    /\ pc' = [pc EXCEPT ![s] = "idle"]
    /\ user_text' = [user_text EXCEPT ![s] = ""]
    /\ today' = [today EXCEPT ![s] = NoArg]
    /\ data' = [data EXCEPT ![s] = NoData]
    /\ habits' = [habits EXCEPT ![s] = {}]
    /\ period' = [period EXCEPT ![s] = ""]
    /\ call_time' = [call_time EXCEPT ![s] = NoTime]
    /\ result' = [result EXCEPT ![s] = NoResult]
    /\ UNCHANGED <<file, stale, last_saver>>

(***************************************************************************)
(* Specifications                                                          *)
(***************************************************************************)
\* one session logging, update_sheet called with every form of date argument
Next ==
    \/ \E text \in Texts, arg \in DateArgs : LogLoad(1, text, arg)
    \/ LogExtract(1)
    \/ LogUpdate(1)
    \/ LogSave(1)
    \/ Download(1)
    \/ Finish(1)

Spec == Init /\ [][Next]_vars

\* one session logging on top of a file this program did not write
InitLegacy == file \in LegacyFiles \cup {NoFile} /\ InitLocals

SpecLegacy == InitLegacy /\ [][Next]_vars

\* one session analysing a ledger the Log cycle wrote
InitAnalyze == file \in AnalysisFiles /\ InitLocals

NextAnalyze ==
    \/ \E p \in {"week", "month"} : AnalyzeLoad(1, p)
    \/ \E t \in CallTimes : AnalyzePeriod(1, t)
    \/ Finish(1)

SpecAnalyze == InitAnalyze /\ [][NextAnalyze]_vars

\* the day session s logs in the race
RaceDay(s) == [FirstDay EXCEPT !.day = FirstDay.day + (s - 1)]

\* two sessions, each running one Log cycle, for different days
NextRace ==
    \E s \in Sessions :
        \/ \E text \in Texts : LogLoad(s, text, StrArg(Strftime(RaceDay(s))))
        \/ LogExtract(s)
        \/ LogUpdate(s)
        \/ LogSave(s)

SpecRace == Init /\ [][NextRace]_vars

(***************************************************************************)
(* Properties                                                              *)
(***************************************************************************)
\* the step of session s from one place of its run to the next
Step(s, from, to) == pc[s] = from /\ pc'[s] = to

Key(s) == TodayStr(today[s])

\* no two records of the table share a Date
UniqueDates(t) ==
    \A i, j \in DOMAIN t.rows :
        AsTypeStr(t.rows[i]["Date"]) = AsTypeStr(t.rows[j]["Date"]) => i = j

\* C1: starting from an empty ledger, after any sequence of upserts the ledger
\* (in memory and as saved) holds at most one record for every date, and
\* exactly one for the date of the most recent call.
C1_OneRecordPerDate ==
    /\ UniqueDates(file)
    /\ \A s \in Sessions :
        /\ UniqueDates(data[s])
        /\ pc[s] \in {"log_updated", "log_done"} =>
                Cardinality(RowsOf(data[s], Key(s))) = 1

\* an upsert onto a date that already had a record, in a ledger of several
C1_Witness ==
    /\ pc[1] = "log_updated"
    /\ Len(data[1].rows) >= 2
    /\ RowsOf(file, Key(1)) # {}

\* habit h is "Yes" in a record of the table for the date key
YesAt(t, key, h) == \E i \in RowsOf(t, key) : t.rows[i][h] = Str("Yes")

KeysOf(t) == {AsTypeStr(t.rows[i]["Date"]) : i \in DOMAIN t.rows}

\* C2: additive merge: a habit that is "Yes" for a date before update_sheet is
\* "Yes" for that date after it, whether or not the call detected the habit;
\* so no upsert turns a Yes back to No.
C2_AdditiveMerge ==
    [][\A s \in Sessions :
          Step(s, "log_extracted", "log_updated") =>
              \A key \in KeysOf(data[s]), h \in Range(core_habits) :
                  YesAt(data[s], key, h) => YesAt(data'[s], key, h)]_vars

\* after an upsert, the record of its date holds a Yes the call did not detect
C2_Witness ==
    /\ pc[1] = "log_updated"
    /\ \E h \in Range(core_habits) : h \notin habits[1] /\ YesAt(data[1], Key(1), h)

\* C3: update_sheet is idempotent: applied again with the same date and habits
\* to its own result, it returns that result: same records, values and order.
C3_Idempotent ==
    \A s \in Sessions :
        pc[s] = "log_updated" =>
            update_sheet(data[s], habits[s], today[s]) = data[s]

\* an upsert that merged into an existing record and moved it to the end
C3_Witness ==
    /\ pc[1] = "log_updated"
    /\ Len(data[1].rows) >= 2
    /\ RowsOf(file, Key(1)) # {}
    /\ RowsOf(file, Key(1)) # {Len(file.rows)}
    /\ habits[1] # {}

\* the string p occurs in the string t
Occurs(p, t) == \E i \in 1..Len(t) : \E j \in i..Len(t) : SubSeq(t, i, j) = p

Row(date, yes) ==
    [c \in Range(columns_to_keep) |->
        IF c = "Date" THEN Str(date) ELSE IF c \in yes THEN Str("Yes") ELSE Str("No")]

\* C4: a Log cycle for text t and date d on a ledger without a record for d
\* creates one record for d in which a habit is "Yes" exactly when one of its
\* trigger substrings occurs in the lowercased t, and "No" otherwise; the
\* example text logged for 2024-03-05 gives exercise, study, reading = Yes.
C4_NewRecord ==
    [][\A s \in Sessions :
          (Step(s, "log_extracted", "log_updated") /\ RowsOf(data[s], Key(s)) = {}) =>
              /\ Cardinality(RowsOf(data'[s], Key(s))) = 1
              /\ \A i \in RowsOf(data'[s], Key(s)) :
                    /\ data'[s].rows[i] =
                          Row(Key(s), {h \in Range(core_habits) :
                                \E p \in habit_patterns[h] : Occurs(p, Lower(user_text[s]))})
                    /\ (user_text[s] = ExampleText /\ Key(s) = "2024-03-05") =>
                          data'[s].rows[i] =
                              Row("2024-03-05", {"exercise", "study", "reading"})]_vars

\* the example text logged for 2024-03-05 on an empty ledger
C4_Witness ==
    /\ pc[1] = "log_updated"
    /\ user_text[1] = ExampleText
    /\ Key(1) = "2024-03-05"
    /\ file.rows = <<>>
    /\ Len(data[1].rows) = 1

\* the calendar day a canonical date string names, among the analysis days
DayNamed(str) ==
    AnalysisDays[CHOOSE k \in DOMAIN AnalysisDays : Strftime(AnalysisDays[k]) = str]

Monday(d) == ToOrdinal(d.year, d.month, d.day) - Weekday(d.year, d.month, d.day)

\* day d lies in the calendar week (Monday to Sunday), or the calendar month, of t
InCalendarPeriod(d, p, t) ==
    IF p = "week" THEN Monday(d) = Monday(t)
    ELSE d.year = t.year /\ d.month = t.month

\* C5: whatever the call time, analyze_period counts a record iff its date lies
\* in the inclusive window: Monday to Sunday of the current week, or the first
\* to the last day of the current month.
C5_InclusiveWindow ==
    \A s \in Sessions :
        pc[s] = "an_done" =>
            LET inside == {i \in DOMAIN file.rows :
                              InCalendarPeriod(DayNamed(file.rows[i]["Date"].s),
                                               period[s], call_time[s])}
            IN  /\ result[s].total = Cardinality(inside)
                /\ \A h \in Range(core_habits) :
                      result[s].counts[h] =
                          Cardinality({i \in inside : file.rows[i][h] = Str("Yes")})

\* the columns load_data returns for an existing file: the file's own columns
\* that are Date or a habit, in the file's order, then the ones it lacked
RepairedColumns(f) ==
    SelectSeq(f.cols, LAMBDA c : c \in Range(columns_to_keep))
        \o SelectSeq(columns_to_keep, LAMBDA c : c \notin Range(f.cols))

\* C6 as stated: for every existing file, load_data's columns are Date and the
\* seven habits in the canonical order.
C6_CanonicalOrder ==
    [][\A s \in Sessions :
          (Step(s, "idle", "log_loaded") /\ file.exists) =>
              data'[s].cols = columns_to_keep]_vars

\* C6 as amended: for every existing file, load_data's columns are exactly Date
\* and the seven habits, each once; the file's own columns keep the file's
\* order and the ones it lacked follow, Date before the habits.
C6_ColumnSet ==
    [][\A s \in Sessions :
          (Step(s, "idle", "log_loaded") /\ file.exists) =>
              /\ Range(data'[s].cols) = Range(columns_to_keep)
              /\ Len(data'[s].cols) = Len(columns_to_keep)
              /\ data'[s].cols = RepairedColumns(file)
              /\ \A i \in DOMAIN data'[s].rows :
                    DOMAIN data'[s].rows[i] = Range(columns_to_keep)]_vars

\* a table loaded from a file with other columns than the ones returned
C6_Witness ==
    /\ pc[1] = "log_loaded"
    /\ file.exists
    /\ file.cols # data[1].cols
    /\ Range(file.cols) \ Range(columns_to_keep) # {}
    /\ Len(data[1].rows) > 0

IsDigits(str) == \A i \in 1..Len(str) : \E d \in 1..Len(DigitChars) : CharAt(str, i) = CharAt(DigitChars, d)

\* the string has the form YYYY-MM-DD
IsCanonicalForm(str) ==
    /\ Len(str) = 10
    /\ CharAt(str, 5) = "-" /\ CharAt(str, 8) = "-"
    /\ IsDigits(SubSeq(str, 1, 4)) /\ IsDigits(SubSeq(str, 6, 7)) /\ IsDigits(SubSeq(str, 9, 10))

\* the calendar day a date argument names
DayOf(arg) ==
    IF arg.isstr THEN CHOOSE d \in Days : arg.s \in {Strftime(d), Unpadded(d)}
    ELSE arg.date

\* C7 as stated: update_sheet stores and looks up the date as YYYY-MM-DD,
\* whether it came as a date value or as a string, so the ledger holds one
\* record for the calendar day of the call, under its YYYY-MM-DD key.
C7_AlwaysCanonical ==
    \A s \in Sessions :
        pc[s] = "log_updated" =>
            /\ \A i \in DOMAIN data[s].rows : IsCanonicalForm(data[s].rows[i]["Date"].s)
            /\ Cardinality({i \in DOMAIN data[s].rows :
                   ParseDate(data[s].rows[i]["Date"].s) = ParseDate(Key(s))}) = 1

\* C7 as amended: a date value is stored and looked up as its YYYY-MM-DD
\* string, a string argument as it was given; so a date value and the
\* YYYY-MM-DD string of the same day hit the same record.
C7_DateValueNormalized ==
    \A s \in Sessions :
        pc[s] = "log_updated" =>
            LET stored == data[s].rows[Len(data[s].rows)]["Date"].s
                d == DayOf(today[s])
            IN  /\ today[s].isstr => stored = today[s].s
                /\ ~today[s].isstr =>
                      /\ IsCanonicalForm(stored)
                      /\ ToInt(SubSeq(stored, 1, 4)) = d.year
                      /\ ToInt(SubSeq(stored, 6, 7)) = d.month
                      /\ ToInt(SubSeq(stored, 9, 10)) = d.day
                /\ Cardinality({i \in DOMAIN data[s].rows :
                       data[s].rows[i]["Date"].s = stored}) = 1
                /\ (~today[s].isstr \/ IsCanonicalForm(today[s].s)) =>
                      Cardinality({i \in DOMAIN data[s].rows :
                          /\ IsCanonicalForm(data[s].rows[i]["Date"].s)
                          /\ ParseDate(data[s].rows[i]["Date"].s) = ParseDate(stored)}) = 1

\* a date value upserted onto a record stored under its YYYY-MM-DD string
C7_Witness ==
    /\ pc[1] = "log_updated"
    /\ ~today[1].isstr
    /\ RowsOf(file, Strftime(today[1].date)) # {}
    /\ Cardinality(RowsOf(data[1], Strftime(today[1].date))) = 1

\* C8: analyze_period has no side effects: the table it was handed and the
\* backing file are after the call what they were before it.
C8_NoSideEffects ==
    [][\A s \in Sessions :
          Step(s, "an_loaded", "an_done") => (data'[s] = data[s] /\ file' = file)]_vars

\* C9: after update_sheet the record of its date holds "Yes" or "No" for every
\* habit, also when the date had a record in which a habit value was missing.
C9_ExplicitValues ==
    \A s \in Sessions :
        pc[s] = "log_updated" =>
            \A i \in RowsOf(data[s], Key(s)), h \in Range(core_habits) :
                /\ h \in DOMAIN data[s].rows[i]
                /\ data[s].rows[i][h] \in {Str("Yes"), Str("No")}

BothDone == \A s \in Sessions : pc[s] = "log_done"

\* C10: the Log cycle holds no lock.  When both sessions have run their cycle,
\* the record of the session that saved last is persisted, and the record of
\* the one that saved first is persisted iff the cycles did not interleave,
\* that is iff the last saver loaded after the first one's save.
C10_LostUpdate ==
    BothDone =>
        LET first == CHOOSE s \in Sessions : s # last_saver
        IN  /\ RowsOf(file, Key(last_saver)) # {}
            /\ (RowsOf(file, Key(first)) # {}) <=> ~stale[last_saver]

\* both loaded before either saved, and the first save is lost
C10_Witness ==
    /\ BothDone
    /\ stale[last_saver]
    /\ \E s \in Sessions : s # last_saver /\ RowsOf(file, Key(s)) = {}
    /\ Len(file.rows) = 1

====
